---- MODULE Spec2Model ----
(***************************************************************************)
(* Two-qubit XEB pipeline of cirq/experiments/fidelity_estimation.py:      *)
(* sample_2q_xeb_circuits, simulate_2q_xeb_circuits and                    *)
(* benchmark_2q_xeb_fidelities, as one state machine (Spec, and            *)
(* SampleFairSpec for the sampling call under fair scheduling); and the    *)
(* stand-alone functions least_squares_xeb_fidelity_from_expectations      *)
(* (LsqSpec), xeb_fidelity (XebSpec) and get_initial_simplex_and_names     *)
(* (SimplexSpec), each applied to arguments drawn from bounded sets.       *)
(*                                                                         *)
(* A circuit is a sequence of moments; a moment is the set of qubits its   *)
(* operations act on (qubits are LineQubit indices, sorted by <).  The     *)
(* circuits explored have the same qubit set in every moment.              *)
(* A probability vector is a record [num, den]: entry k is num[k]/den     *)
(* (exact rationals stand for the floats of numpy).                        *)
(***************************************************************************)
EXTENDS Integers, Sequences, FiniteSets, TLC

MaxCircuits == 2
MaxLen == 3
MaxDepth == 1
MaxDepths == 2
MaxBatch == 3
MaxTasks == 4
PoolSize == 1
MaxExpectations == 2
MaxExpectation == 1
MaxBitstrings == 2
MaxDefault == 1
MaxStep == 2

max_workers == 2

\* Two qubits: 2 ** 2 outcomes.  Probabilities are counted in units of
\* 1 / PDen, and the sampler is run for as many repetitions, so that the
\* counts of an ideal sampler are exact.
HilbertDim == 2 ^ 2
PDen == HilbertDim
Repetitions == PDen

QubitSets == {{0}, {0, 1}}
Circuits == {[i \in 1..n |-> q] : n \in 0..MaxLen, q \in QubitSets}
Libraries == UNION {[1..n -> Circuits] : n \in 0..MaxCircuits}
DepthLists == UNION {[1..k -> 0..MaxDepth] : k \in 0..MaxDepths}

VARIABLES
  circuits, cycle_depths,
  pc, error,
  batch_size, qubits01,
  tasks, batched_tasks, futures, results, yielded, cur,
  records, progress_total, progress_n, progress_log,
  run_batch_calls, sampled_df,
  sim_caller, pool, sim_state, sim_moment, sim_records, simulated_df,
  joined_df, fidelity_df

inputVars == <<circuits, cycle_depths>>
sampleVars == <<batch_size, qubits01, tasks, batched_tasks, futures,
                results, yielded, cur, records, progress_total, progress_n,
                progress_log, run_batch_calls, sampled_df>>
simVars == <<sim_caller, pool, sim_state, sim_moment, sim_records, simulated_df>>
benchVars == <<joined_df, fidelity_df>>
pipelineVars == <<inputVars, pc, error, sampleVars, simVars, benchVars>>

\* The stand-alone functions of the module, each with its arguments, its
\* position and what it returned or raised.
VARIABLES
  measured_expectations, exact_expectations, uniform_expectations,
  numpy_floats, lsq_pc, lsq_error, fidelity, residuals

lsqVars == <<measured_expectations, exact_expectations, uniform_expectations,
             numpy_floats, lsq_pc, lsq_error, fidelity, residuals>>
VARIABLES
  xeb_circuit, bitstrings, amplitudes, xeb_pc, xeb_error, dim, bit_i,
  simulator_calls, amplitude_lookups, estimator_calls,
  bitstring_probabilities, xeb_result

xebVars == <<xeb_circuit, bitstrings, amplitudes, xeb_pc, xeb_error, dim,
             bit_i, simulator_calls, amplitude_lookups, estimator_calls,
             bitstring_probabilities, xeb_result>>
VARIABLES
  options, initial_simplex_step_size, simplex_pc, initial_simplex, names

simplexVars == <<options, initial_simplex_step_size, simplex_pc,
                 initial_simplex, names>>
fnVars == <<lsqVars, xebVars, simplexVars>>
vars == <<pipelineVars, fnVars>>

----------------------------------------------------------------------------
(* Sequence helpers *)

Range(s) == {s[i] : i \in 1..Len(s)}

RECURSIVE SumSeq(_)
SumSeq(s) == IF s = <<>> THEN 0 ELSE Head(s) + SumSeq(Tail(s))

RECURSIVE Flatten(_)
Flatten(ss) == IF ss = <<>> THEN <<>> ELSE Head(ss) \o Flatten(Tail(ss))

Min(S) == CHOOSE x \in S : \A y \in S : x <= y

CeilDiv(a, b) == (a + b - 1) \div b

----------------------------------------------------------------------------
(* Circuits, the simulator and the sampler *)

all_qubits(circuit) == UNION {circuit[i] : i \in 1..Len(circuit)}

Truncate(circuit, n) == SubSeq(circuit, 1, IF n < Len(circuit) THEN n ELSE Len(circuit))

\* State of the stepwise simulator after moment_i + 1 layers, as the vector
\* of squared magnitudes over the circuit's own qubits (2^n entries).
\* Entries are in units of 1 / PDen.  One layer of single-qubit square-root
\* gates on |00> gives the uniform distribution.  The simulator is
\* deterministic and does not fail.
StateProbs(circuit, moment_i) ==
  LET nq == Cardinality(all_qubits(circuit))
      n  == moment_i + 1
  IN  IF nq = 0 THEN <<4>>
      ELSE IF nq = 1 THEN
        (IF n = 1 THEN <<2, 2>> ELSE IF n = 2 THEN <<0, 4>>
         ELSE IF n = 3 THEN <<1, 3>> ELSE <<3, 1>>)
      ELSE
        (IF n = 1 THEN <<1, 1, 1, 1>> ELSE IF n = 2 THEN <<2, 1, 1, 0>>
         ELSE IF n = 3 THEN <<2, 0, 1, 1>> ELSE <<0, 1, 1, 2>>)

\* Distribution of the terminal measurement of (q0, q1) appended to a
\* truncated circuit, outcome = 2*q0 + q1.
MeasuredProbs(prepared) ==
  LET c  == prepared.moments
      qs == all_qubits(c)
      v  == IF Len(c) = 0 THEN <<4>> ELSE StateProbs(c, Len(c) - 1)
      q0 == prepared.measure[1]
      q1 == prepared.measure[2]
  IN  IF qs = {} THEN <<v[1], 0, 0, 0>>
      ELSE IF qs = {q0} THEN <<v[1], 0, v[2], 0>>
      ELSE IF qs = {q1} THEN <<v[1], v[2], 0, 0>>
      ELSE v

\* The shots one circuit of a run_batch call returns: Repetitions outcomes,
\* in the proportions of the circuit's distribution (noiseless, and the same
\* result for the same circuit whenever it is called).
SamplerShots(prepared) ==
  LET d == MeasuredProbs(prepared)
      cnt(k) == (d[k] * Repetitions) \div PDen
      upto(k) == SumSeq([j \in 1..k |-> cnt(j)])
      ideal(j) == Min({k \in 1..HilbertDim : upto(k) >= j}) - 1
  IN  [j \in 1..Repetitions |-> ideal(j)]

bincount(inds, minlength) ==
  LET top == IF inds = <<>> THEN 0
             ELSE 1 + (CHOOSE m \in Range(inds) : \A x \in Range(inds) : x <= m)
      n == IF top > minlength THEN top ELSE minlength
  IN  [k \in 1..n |-> Cardinality({j \in 1..Len(inds) : inds[j] = k - 1})]

----------------------------------------------------------------------------
(* sample_2q_xeb_circuits *)

verify_and_get_two_qubits_from_circuits(circs) ==
  LET all_qubits_set == UNION {all_qubits(circs[i]) : i \in 1..Len(circs)}
  IN  IF Cardinality(all_qubits_set) # 2 THEN <<>>
      ELSE LET a == Min(all_qubits_set) IN <<a, Min(all_qubits_set \ {a})>>

Sample2qXEBTask(cycle_depth, circuit_i, prepared_circuit) ==
  [cycle_depth |-> cycle_depth, circuit_i |-> circuit_i,
   prepared_circuit |-> prepared_circuit]

SampleInBatches_Misaligned(task_batch) ==
  LET prepared_circuits == [j \in 1..Len(task_batch) |-> task_batch[j].prepared_circuit]
      run_batch == [j \in 1..Len(prepared_circuits) |->
                      SamplerShots(prepared_circuits[j])]
  IN  [j \in 1..Len(task_batch) |->
         [circuit_i |-> task_batch[j].circuit_i,
          cycle_depth |-> task_batch[j].cycle_depth,
          sampled_probs |-> [num |-> bincount(run_batch[Len(task_batch) + 1 - j], HilbertDim),
                             den |-> Len(run_batch[j])]]]

SampleInBatches(task_batch) ==
  LET prepared_circuits == [j \in 1..Len(task_batch) |-> task_batch[j].prepared_circuit]
      run_batch == [j \in 1..Len(prepared_circuits) |->
                      SamplerShots(prepared_circuits[j])]
  IN  [j \in 1..Len(task_batch) |->
         [circuit_i |-> task_batch[j].circuit_i,
          cycle_depth |-> task_batch[j].cycle_depth,
          sampled_probs |-> [num |-> bincount(run_batch[j], HilbertDim),
                             den |-> Len(run_batch[j])]]]

BatchTasks_DropLast(ts, bs) ==
  [b \in 1..CeilDiv(Len(ts), bs) |->
     SubSeq(ts, (b - 1) * bs + 1, IF b * bs < Len(ts) THEN b * bs - 1 ELSE Len(ts) - 1)]

BatchTasks_Overlap(ts, bs) ==
  [b \in 1..CeilDiv(Len(ts), bs) |->
     SubSeq(ts, IF b = 1 THEN 1 ELSE (b - 1) * bs,
                IF b * bs < Len(ts) THEN b * bs ELSE Len(ts))]

\* Line 522: tasks[i : i + batch_size] for i in range(0, n_tasks, batch_size).
BatchTasks(ts, bs) ==
  [b \in 1..CeilDiv(Len(ts), bs) |->
     SubSeq(ts, (b - 1) * bs + 1, IF b * bs < Len(ts) THEN b * bs ELSE Len(ts))]

\* Line 512 with line 511: assert circuit_depth <= len(circuit).
CircuitLongEnough_CycleDepth(cycle_depth, circuit) == cycle_depth <= Len(circuit)

CircuitLongEnough(cycle_depth, circuit) == cycle_depth * 2 + 1 <= Len(circuit)

NTasksWanted == Len(cycle_depths) * Len(circuits)

\* No call of the pipeline made yet.
PipelineIdle ==
  /\ pc = "idle"
  /\ error = "none"
  /\ batch_size = 0
  /\ qubits01 = <<>>
  /\ tasks = <<>>
  /\ batched_tasks = <<>>
  /\ futures = <<>>
  /\ results = <<>>
  /\ yielded = {}
  /\ cur = 0
  /\ records = <<>>
  /\ progress_total = 0
  /\ progress_n = 0
  /\ progress_log = <<>>
  /\ run_batch_calls = <<>>
  /\ sampled_df = <<>>
  /\ sim_caller = "none"
  /\ pool = FALSE
  /\ sim_state = <<>>
  /\ sim_moment = <<>>
  /\ sim_records = <<>>
  /\ simulated_df = <<>>
  /\ joined_df = <<>>
  /\ fidelity_df = <<>>

\* No argument given to least_squares_xeb_fidelity_from_expectations yet.
LsqIdle ==
  /\ measured_expectations = <<>>
  /\ exact_expectations = <<>>
  /\ uniform_expectations = <<>>
  /\ numpy_floats = FALSE
  /\ lsq_pc = "idle"
  /\ lsq_error = "none"
  /\ fidelity = <<>>
  /\ residuals = <<>>

\* No argument given to xeb_fidelity yet.
XebIdle ==
  /\ xeb_circuit = <<>>
  /\ bitstrings = <<>>
  /\ amplitudes = [given |-> FALSE, map |-> <<>>]
  /\ xeb_pc = "idle"
  /\ xeb_error = "none"
  /\ dim = 0
  /\ bit_i = 0
  /\ simulator_calls = 0
  /\ amplitude_lookups = 0
  /\ estimator_calls = 0
  /\ bitstring_probabilities = <<>>
  /\ xeb_result = <<>>

\* Lines 715-725: the options as constructed with no argument, and no call
\* of get_initial_simplex_and_names yet.
DefaultOptions ==
  [characterize_theta |-> TRUE, characterize_zeta |-> TRUE,
   characterize_chi |-> TRUE, characterize_gamma |-> TRUE,
   characterize_phi |-> TRUE,
   theta_default |-> 0, zeta_default |-> 0, chi_default |-> 0,
   gamma_default |-> 0, phi_default |-> 0]

SimplexIdle ==
  /\ options = DefaultOptions
  /\ initial_simplex_step_size = 0
  /\ simplex_pc = "idle"
  /\ initial_simplex = <<>>
  /\ names = <<>>

FnIdle == LsqIdle /\ XebIdle /\ SimplexIdle

Init ==
  /\ circuits \in Libraries
  /\ cycle_depths \in DepthLists
  /\ Len(circuits) * Len(cycle_depths) <= MaxTasks
  /\ PipelineIdle
  /\ FnIdle

\* Entry: line 507, the two-qubit verification.
SampleCall(bs) ==
  /\ pc = "idle"
  /\ batch_size' = bs
  /\ qubits01' = verify_and_get_two_qubits_from_circuits(circuits)
  /\ IF qubits01' = <<>>
       THEN pc' = "sample_raised" /\ error' = "ValueError"
       ELSE pc' = "sample_build" /\ error' = error
  /\ UNCHANGED <<fnVars, inputVars, tasks, batched_tasks, futures, results, yielded, cur,
                 records, progress_total, progress_n, progress_log,
                 run_batch_calls, sampled_df, simVars, benchVars>>

\* One iteration of the nested loop of lines 509-519.
BuildTask ==
  /\ pc = "sample_build"
  /\ Len(tasks) < NTasksWanted
  /\ LET t == Len(tasks)
         cycle_depth == cycle_depths[(t \div Len(circuits)) + 1]
         circuit_i == t % Len(circuits)
         circuit == circuits[circuit_i + 1]
         circuit_depth == cycle_depth * 2 + 1
         prepared_circuit == [moments |-> Truncate(circuit, circuit_depth),
                              measure |-> qubits01]
     IN  IF CircuitLongEnough(cycle_depth, circuit)
           THEN /\ tasks' = Append(tasks,
                       Sample2qXEBTask(cycle_depth, circuit_i, prepared_circuit))
                /\ UNCHANGED <<pc, error>>
           ELSE /\ pc' = "sample_raised"
                /\ error' = "AssertionError"
                /\ UNCHANGED tasks
  /\ UNCHANGED <<fnVars, inputVars, batch_size, qubits01, batched_tasks,
                 futures, results, yielded, cur, records, progress_total, progress_n,
                 progress_log, run_batch_calls, sampled_df, simVars, benchVars>>

\* Lines 521-529: batching, submission of every batch, opening the progress
\* bar.  The submissions are taken as one step: a worker starts its first
\* batch after the last pool.submit.
SubmitBatches ==
  /\ pc = "sample_build"
  /\ Len(tasks) = NTasksWanted
  /\ batched_tasks' = BatchTasks(tasks, batch_size)
  /\ futures' = [b \in 1..Len(batched_tasks') |-> "pending"]
  /\ results' = [b \in 1..Len(batched_tasks') |-> <<>>]
  /\ run_batch_calls' = [b \in 1..Len(batched_tasks') |-> 0]
  /\ progress_total' = Len(tasks)
  /\ pc' = "sample_collect"
  /\ UNCHANGED <<fnVars, inputVars, error, batch_size, qubits01, tasks, yielded, cur,
                 records, progress_n, progress_log, sampled_df, simVars, benchVars>>

Running == {b \in 1..Len(futures) : futures[b] = "running"}
Pending == {b \in 1..Len(futures) : futures[b] = "pending"}

\* A free worker thread takes the oldest queued batch and calls run_batch.
WorkerTake ==
  /\ pc \in {"sample_collect", "sample_update", "sample_shutdown"}
  /\ Cardinality(Running) < max_workers
  /\ Pending # {}
  /\ LET b == Min(Pending)
     IN  /\ futures' = [futures EXCEPT ![b] = "running"]
         /\ run_batch_calls' = [run_batch_calls EXCEPT ![b] = @ + 1]
  /\ UNCHANGED <<fnVars, inputVars, pc, error, batch_size, qubits01, tasks,
                 batched_tasks, results, yielded, cur, records, progress_total,
                 progress_n, progress_log, sampled_df, simVars, benchVars>>

WorkerFinish_Retry(b, ok) ==
  /\ b \in Running
  /\ IF ok
       THEN /\ futures' = [futures EXCEPT ![b] = "finished"]
            /\ results' = [results EXCEPT ![b] = SampleInBatches(batched_tasks[b])]
       ELSE /\ futures' = [futures EXCEPT ![b] = "pending"]
            /\ UNCHANGED results
  /\ UNCHANGED <<fnVars, inputVars, pc, error, batch_size, qubits01, tasks,
                 batched_tasks, yielded, cur, records, progress_total, progress_n,
                 progress_log, run_batch_calls, sampled_df, simVars, benchVars>>

\* run_batch returns (or raises) and _SampleInBatches.__call__ finishes.
WorkerFinish(b, ok) ==
  /\ b \in Running
  /\ IF ok
       THEN /\ futures' = [futures EXCEPT ![b] = "finished"]
            /\ results' = [results EXCEPT ![b] = SampleInBatches(batched_tasks[b])]
       ELSE /\ futures' = [futures EXCEPT ![b] = "failed"]
            /\ UNCHANGED results
  /\ UNCHANGED <<fnVars, inputVars, pc, error, batch_size, qubits01, tasks,
                 batched_tasks, yielded, cur, records, progress_total, progress_n,
                 progress_log, run_batch_calls, sampled_df, simVars, benchVars>>

\* as_completed yields a completed future; line 531.
Collect(b) ==
  /\ pc = "sample_collect"
  /\ b \in 1..Len(futures)
  /\ b \notin yielded
  /\ futures[b] \in {"finished", "failed"}
  /\ yielded' = yielded \cup {b}
  /\ IF futures[b] = "finished"
       THEN /\ records' = records \o results[b]
            /\ cur' = b
            /\ pc' = "sample_update"
            /\ UNCHANGED error
       ELSE /\ pc' = "sample_shutdown"
            /\ error' = "SamplerFault"
            /\ UNCHANGED <<records, cur>>
  /\ UNCHANGED <<fnVars, inputVars, batch_size, qubits01, tasks,
                 batched_tasks, futures, results, progress_total, progress_n,
                 progress_log, run_batch_calls, sampled_df, simVars, benchVars>>

ProgressUpdate_BatchLen ==
  /\ pc = "sample_update"
  /\ progress_n' = progress_n + Len(batched_tasks[cur])
  /\ progress_log' = Append(progress_log, cur)
  /\ cur' = 0
  /\ pc' = "sample_collect"
  /\ UNCHANGED <<fnVars, inputVars, error, batch_size, qubits01, tasks,
                 batched_tasks, futures, results, yielded, records, progress_total,
                 run_batch_calls, sampled_df, simVars, benchVars>>

\* Line 532.
ProgressUpdate ==
  /\ pc = "sample_update"
  /\ progress_n' = progress_n + batch_size
  /\ progress_log' = Append(progress_log, cur)
  /\ cur' = 0
  /\ pc' = "sample_collect"
  /\ UNCHANGED <<fnVars, inputVars, error, batch_size, qubits01, tasks,
                 batched_tasks, futures, results, yielded, records, progress_total,
                 run_batch_calls, sampled_df, simVars, benchVars>>

set_index_fails(recs) == recs = <<>>

SampleReturn_Early ==
  /\ pc = "sample_collect"
  /\ yielded # {}
  /\ IF set_index_fails(records)
       THEN pc' = "sample_raised" /\ error' = "KeyError" /\ UNCHANGED sampled_df
       ELSE pc' = "sample_returned" /\ sampled_df' = records /\ UNCHANGED error
  /\ UNCHANGED <<fnVars, inputVars, batch_size, qubits01, tasks,
                 batched_tasks, futures, results, yielded, cur, records, progress_total,
                 progress_n, progress_log, run_batch_calls, simVars, benchVars>>

\* The loop is exhausted, the pool is shut down, line 534 builds the table.
SampleReturn ==
  /\ pc = "sample_collect"
  /\ yielded = 1..Len(futures)
  /\ IF set_index_fails(records)
       THEN pc' = "sample_raised" /\ error' = "KeyError" /\ UNCHANGED sampled_df
       ELSE pc' = "sample_returned" /\ sampled_df' = records /\ UNCHANGED error
  /\ UNCHANGED <<fnVars, inputVars, batch_size, qubits01, tasks,
                 batched_tasks, futures, results, yielded, cur, records, progress_total,
                 progress_n, progress_log, run_batch_calls, simVars, benchVars>>

\* The fault leaves the with-blocks: the pool's shutdown waits for every
\* submitted batch, then the fault reaches the caller.
SampleShutdown ==
  /\ pc = "sample_shutdown"
  /\ \A b \in 1..Len(futures) : futures[b] \in {"finished", "failed"}
  /\ pc' = "sample_raised"
  /\ UNCHANGED <<fnVars, inputVars, error, sampleVars, simVars, benchVars>>

----------------------------------------------------------------------------
(* simulate_2q_xeb_circuits *)

circuit_max_cycle_depth_NoMinusOne(circuit) == Len(circuit) \div 2

\* (len(circuit) - 1) // 2, Python floor division.
circuit_max_cycle_depth(circuit) ==
  IF Len(circuit) = 0 THEN -1 ELSE (Len(circuit) - 1) \div 2

\* Lines 556-562: max() of an empty set and a too short circuit both raise
\* ValueError.
SimValidationFails(circuit, depths) ==
  LET ds == Range(depths)
  IN  \/ ds = {}
      \/ \E d \in ds : d > circuit_max_cycle_depth(circuit)

StepRecords_OddNotSkipped(circuit_i, circuit, depths, moment_i) ==
  LET cycle_depth == moment_i \div 2
  IN  IF cycle_depth \notin Range(depths) THEN <<>>
      ELSE << [circuit_i |-> circuit_i,
               cycle_depth |-> cycle_depth,
               moment_i |-> moment_i,
               pure_probs |-> [num |-> StateProbs(circuit, moment_i),
                               den |-> PDen]] >>

\* Lines 571-587: what one simulator step adds to the task's records.  The
\* field moment_i is not part of the program's record: it keeps the step the
\* record was taken from.
StepRecords(circuit_i, circuit, depths, moment_i) ==
  IF moment_i % 2 = 1 THEN <<>>
  ELSE LET cycle_depth == moment_i \div 2
       IN  IF cycle_depth \notin Range(depths) THEN <<>>
           ELSE << [circuit_i |-> circuit_i,
                    cycle_depth |-> cycle_depth,
                    moment_i |-> moment_i,
                    pure_probs |-> [num |-> StateProbs(circuit, moment_i),
                                    den |-> PDen]] >>

StartSimulation(caller, p) ==
  /\ sim_caller' = caller
  /\ pool' = p
  /\ sim_state' = [i \in 1..Len(circuits) |-> "todo"]
  /\ sim_moment' = [i \in 1..Len(circuits) |-> 0]
  /\ sim_records' = [i \in 1..Len(circuits) |-> <<>>]
  /\ pc' = "simulate"
  /\ UNCHANGED <<fnVars, inputVars, error, sampleVars, simulated_df, benchVars>>

SimulateCall(p) ==
  /\ pc = "idle"
  /\ StartSimulation("direct", p)

\* The task's call begins: lines 555-562.  Without a pool the tasks run in
\* caller order and the first ValueError ends the whole call.
SimTaskStart(i) ==
  /\ pc = "simulate"
  /\ i \in 1..Len(sim_state)
  /\ sim_state[i] = "todo"
  /\ IF pool
       THEN Cardinality({j \in 1..Len(sim_state) : sim_state[j] = "running"}) < PoolSize
       ELSE \A j \in 1..(i - 1) : sim_state[j] = "returned"
  /\ IF SimValidationFails(circuits[i], cycle_depths)
       THEN /\ sim_state' = [sim_state EXCEPT ![i] = "raised"]
            /\ IF pool THEN UNCHANGED <<pc, error>>
                       ELSE pc' = "simulate_raised" /\ error' = "ValueError"
       ELSE /\ sim_state' = [sim_state EXCEPT ![i] = "running"]
            /\ UNCHANGED <<pc, error>>
  /\ UNCHANGED <<fnVars, inputVars, sampleVars, sim_caller, pool, sim_moment,
                 sim_records, simulated_df, benchVars>>

\* The simulator executes layer moment_i and the loop body handles the step.
SimStep(i) ==
  /\ pc = "simulate"
  /\ i \in 1..Len(sim_state)
  /\ sim_state[i] = "running"
  /\ sim_moment[i] < Len(circuits[i])
  /\ sim_records' = [sim_records EXCEPT ![i] =
        @ \o StepRecords(i - 1, circuits[i], cycle_depths, sim_moment[i])]
  /\ sim_moment' = [sim_moment EXCEPT ![i] = @ + 1]
  /\ UNCHANGED <<fnVars, inputVars, pc, error, sampleVars, sim_caller, pool,
                 sim_state, simulated_df, benchVars>>

\* The step iterator is exhausted: line 589.
SimTaskReturn(i) ==
  /\ pc = "simulate"
  /\ i \in 1..Len(sim_state)
  /\ sim_state[i] = "running"
  /\ sim_moment[i] = Len(circuits[i])
  /\ sim_state' = [sim_state EXCEPT ![i] = "returned"]
  /\ UNCHANGED <<fnVars, inputVars, pc, error, sampleVars, sim_caller, pool,
                 sim_moment, sim_records, simulated_df, benchVars>>

\* Lines 638-643: every task has ended; pool.map re-raises a task's error.
SimulateFinish ==
  /\ pc = "simulate"
  /\ \A i \in 1..Len(sim_state) : sim_state[i] \in {"returned", "raised"}
  /\ LET recs == Flatten(sim_records)
     IN  IF \E i \in 1..Len(sim_state) : sim_state[i] = "raised"
           THEN pc' = "simulate_raised" /\ error' = "ValueError"
                /\ UNCHANGED simulated_df
         ELSE IF set_index_fails(recs)
           THEN pc' = "simulate_raised" /\ error' = "KeyError"
                /\ UNCHANGED simulated_df
         ELSE /\ simulated_df' = recs
              /\ pc' = IF sim_caller = "benchmark" THEN "bench_join"
                       ELSE "simulate_returned"
              /\ UNCHANGED error
  /\ UNCHANGED <<fnVars, inputVars, sampleVars, sim_caller, pool, sim_state,
                 sim_moment, sim_records, benchVars>>

----------------------------------------------------------------------------
(* benchmark_2q_xeb_fidelities *)

\* A missing column value of a joined row, and the float NaN.
NaNProbs == [num |-> <<>>, den |-> 0]
NaN == [num |-> 0, den |-> 0]

Key(row) == <<row.circuit_i, row.cycle_depth>>

JoinRows_OnCircuitOnly(row, right) ==
  LET matches == SelectSeq(right, LAMBDA m : m.circuit_i = row.circuit_i)
  IN  IF matches = <<>>
        THEN << [circuit_i |-> row.circuit_i, cycle_depth |-> row.cycle_depth,
                 sampled_probs |-> row.sampled_probs, pure_probs |-> NaNProbs] >>
        ELSE [k \in 1..Len(matches) |->
                [circuit_i |-> row.circuit_i, cycle_depth |-> row.cycle_depth,
                 sampled_probs |-> row.sampled_probs,
                 pure_probs |-> matches[k].pure_probs]]

\* sampled_df.join(simulated_df): a left join on the index.
JoinRows(row, right) ==
  LET matches == SelectSeq(right, LAMBDA m : Key(m) = Key(row))
  IN  IF matches = <<>>
        THEN << [circuit_i |-> row.circuit_i, cycle_depth |-> row.cycle_depth,
                 sampled_probs |-> row.sampled_probs, pure_probs |-> NaNProbs] >>
        ELSE [k \in 1..Len(matches) |->
                [circuit_i |-> row.circuit_i, cycle_depth |-> row.cycle_depth,
                 sampled_probs |-> row.sampled_probs,
                 pure_probs |-> matches[k].pure_probs]]

Join(left, right) == Flatten([k \in 1..Len(left) |-> JoinRows(left[k], right)])

\* The benchmark is run on the table sample_2q_xeb_circuits returned, with
\* the same library and cycle depths and the default pool=None.
BenchmarkCall ==
  /\ pc = "sample_returned"
  /\ StartSimulation("benchmark", FALSE)

BenchJoin ==
  /\ pc = "bench_join"
  /\ joined_df' = Join(sampled_df, simulated_df)
  /\ pc' = "bench_stats"
  /\ UNCHANGED <<fnVars, inputVars, error, sampleVars, simVars, fidelity_df>>

D == 4

\* numpy broadcasting of pure_probs * sampled_probs.
Broadcastable(a, b) == Len(a) = Len(b) \/ Len(a) = 1 \/ Len(b) = 1

SumProd(a, b) ==
  IF Len(a) = Len(b) THEN SumSeq([k \in 1..Len(a) |-> a[k] * b[k]])
  ELSE IF Len(a) = 1 THEN a[1] * SumSeq(b)
  ELSE b[1] * SumSeq(a)

summary_stats_NoProduct(row) ==
  LET P   == row.pure_probs.num
      PD  == row.pure_probs.den
      S   == row.sampled_probs.num
      R   == row.sampled_probs.den
      e_u == D * R * SumProd(P, P)
      u_u == PD * R * SumSeq(P)
      m_u == D * PD * PD * SumSeq(S)
      y   == m_u - u_u
      x   == e_u - u_u
  IN  [cycle_depth |-> row.cycle_depth, circuit_i |-> row.circuit_i,
       numerator |-> x * y, denominator |-> x * x]

\* _summary_stats, lines 672-683.  Every quantity is scaled by the common
\* factor Q = D * den(pure)^2 * den(sampled) (Q^2 for the two products),
\* which is the same in every row and cancels in the fidelity.
summary_stats(row) ==
  LET P   == row.pure_probs.num
      PD  == row.pure_probs.den
      S   == row.sampled_probs.num
      R   == row.sampled_probs.den
      e_u == D * R * SumProd(P, P)
      u_u == PD * R * SumSeq(P)
      m_u == D * PD * SumProd(P, S)
      y   == m_u - u_u
      x   == e_u - u_u
  IN  [cycle_depth |-> row.cycle_depth, circuit_i |-> row.circuit_i,
       numerator |-> x * y, denominator |-> x * x]

StatsFail(df) ==
  \E k \in 1..Len(df) :
     /\ df[k].pure_probs # NaNProbs
     /\ ~Broadcastable(df[k].pure_probs.num, df[k].sampled_probs.num)

\* per_cycle_depth, lines 687-689: a quotient of sums; 0/0 is NaN.
per_cycle_depth(rows) ==
  IF \E k \in 1..Len(rows) : rows[k].pure_probs = NaNProbs THEN NaN
  ELSE LET st  == [k \in 1..Len(rows) |-> summary_stats(rows[k])]
           num == SumSeq([k \in 1..Len(st) |-> st[k].numerator])
           den == SumSeq([k \in 1..Len(st) |-> st[k].denominator])
       IN  IF den = 0 THEN NaN ELSE [num |-> num, den |-> den]

RECURSIVE SortedSeq(_)
SortedSeq(S) == IF S = {} THEN <<>> ELSE <<Min(S)>> \o SortedSeq(S \ {Min(S)})

\* groupby('cycle_depth').apply(per_cycle_depth), line 691.
GroupByDepth(df) ==
  LET depths == SortedSeq({df[k].cycle_depth : k \in 1..Len(df)})
  IN  [g \in 1..Len(depths) |->
         [cycle_depth |-> depths[g],
          fidelity |-> per_cycle_depth(
              SelectSeq(df, LAMBDA r : r.cycle_depth = depths[g]))]]

\* Lines 685-691.
BenchStats ==
  /\ pc = "bench_stats"
  /\ IF StatsFail(joined_df)
       THEN pc' = "bench_raised" /\ error' = "ValueError" /\ UNCHANGED fidelity_df
       ELSE /\ fidelity_df' = GroupByDepth(joined_df)
            /\ pc' = "bench_returned"
            /\ UNCHANGED error
  /\ UNCHANGED <<fnVars, inputVars, sampleVars, simVars, joined_df>>

Next ==
  \/ \E bs \in 1..MaxBatch : SampleCall(bs)
  \/ BuildTask
  \/ SubmitBatches
  \/ WorkerTake
  \/ \E b \in 1..MaxTasks, ok \in BOOLEAN : WorkerFinish(b, ok)
  \/ \E b \in 1..MaxTasks : Collect(b)
  \/ ProgressUpdate
  \/ SampleReturn
  \/ SampleShutdown
  \/ \E p \in BOOLEAN : SimulateCall(p)
  \/ \E i \in 1..MaxCircuits : SimTaskStart(i)
  \/ \E i \in 1..MaxCircuits : SimStep(i)
  \/ \E i \in 1..MaxCircuits : SimTaskReturn(i)
  \/ SimulateFinish
  \/ BenchmarkCall
  \/ BenchJoin
  \/ BenchStats

Spec == Init /\ [][Next]_vars

----------------------------------------------------------------------------
(* Properties of sample_2q_xeb_circuits *)

CircuitIndices == 0..(Len(circuits) - 1)
RequestedDepths == Range(cycle_depths)
DistinctDepths == Cardinality(RequestedDepths) = Len(cycle_depths)
RowsWithKey(df, i, d) == {k \in 1..Len(df) : df[k].circuit_i = i /\ df[k].cycle_depth = d}

\* C1: with K distinct cycle depths, the table sample_2q_xeb_circuits returns
\* has exactly N*K records: exactly one for each (circuit_i, cycle_depth) pair
\* of the library and the depth list, and none for any other key, whatever the
\* batch size.
C1_OneRecordPerPair ==
  (pc = "sample_returned" /\ DistinctDepths) =>
     /\ Len(sampled_df) = Len(circuits) * Len(cycle_depths)
     /\ \A i \in CircuitIndices, d \in RequestedDepths :
           Cardinality(RowsWithKey(sampled_df, i, d)) = 1
     /\ \A k \in 1..Len(sampled_df) :
           /\ sampled_df[k].circuit_i \in CircuitIndices
           /\ sampled_df[k].cycle_depth \in RequestedDepths

\* Reached: two circuits at two depths returned as four records, from more
\* than one batch, the last batch shorter than batch_size.
C1_Witness ==
  /\ pc = "sample_returned"
  /\ Len(circuits) = 2
  /\ Len(cycle_depths) = 2
  /\ DistinctDepths
  /\ Len(sampled_df) = 4
  /\ batch_size = 3
  /\ Len(batched_tasks) = 2

\* The record the task for (circuit_i, cycle_depth) must produce: the
\* sampler's result for that task's own prepared circuit.
ExpectedRecord(i, d) ==
  LET prepared == [moments |-> Truncate(circuits[i + 1], d * 2 + 1),
                   measure |-> qubits01]
      shots == SamplerShots(prepared)
  IN  [circuit_i |-> i, cycle_depth |-> d,
       sampled_probs |-> [num |-> bincount(shots, HilbertDim), den |-> Len(shots)]]

\* C2: the returned records, read as a mapping from (circuit_i, cycle_depth)
\* to sampled_probs, are fixed by the inputs alone, whatever the order in
\* which the batches completed, and every record carries the key of the task
\* whose prepared circuit produced its measurement result.
C2_OrderIndependent ==
  pc = "sample_returned" =>
     Range(sampled_df) = {ExpectedRecord(i, d) : i \in CircuitIndices, d \in RequestedDepths}

\* Reached: the batches were collected in an order other than submission
\* order, and the records do not all hold the same probabilities.
C2_Witness ==
  /\ pc = "sample_returned"
  /\ Len(progress_log) >= 2
  /\ \E k \in 1..(Len(progress_log) - 1) : progress_log[k] > progress_log[k + 1]
  /\ \E a, b \in Range(sampled_df) : a.sampled_probs # b.sampled_probs

\* The batches whose records have been merged into records, in merge order.
CollectedBatches == IF cur = 0 THEN progress_log ELSE Append(progress_log, cur)

\* C3: the progress reporter is advanced once for each batch whose records
\* have been collected, by batch_size each time, only after the collection
\* and never for a batch that has not completed; when the call returns every
\* batch has been reported exactly once.
C3_ProgressPerBatch ==
  /\ progress_n = Len(progress_log) * batch_size
  /\ \A j, k \in 1..Len(progress_log) : j # k => progress_log[j] # progress_log[k]
  /\ \A k \in 1..Len(progress_log) :
        /\ progress_log[k] \in yielded
        /\ futures[progress_log[k]] = "finished"
  /\ records = Flatten([k \in 1..Len(CollectedBatches) |-> results[CollectedBatches[k]]])
  /\ (cur # 0) = (pc = "sample_update")
  /\ pc = "sample_returned" => Range(progress_log) = 1..Len(batched_tasks)

\* Reached: a later batch has been collected and reported while an earlier
\* one is still running.
C3_Witness ==
  /\ Len(progress_log) >= 1
  /\ \E b \in 1..Len(futures) : futures[b] = "running" /\ b < progress_log[1]
  /\ progress_n = Len(progress_log) * batch_size

SomeTooShort ==
  \E k \in 1..Len(cycle_depths), i \in 1..Len(circuits) :
     cycle_depths[k] * 2 + 1 > Len(circuits[i])
SampleCalled == batch_size # 0
NoBatchSubmitted ==
  futures = <<>> /\ run_batch_calls = <<>> /\ records = <<>> /\ progress_n = 0

\* C4 as stated: whenever some requested depth d and some library circuit
\* have 2*d+1 > layers, the call fails with an AssertionError, no batch
\* having been submitted.
C4_Original ==
  (SampleCalled /\ SomeTooShort) =>
     /\ NoBatchSubmitted
     /\ pc \in {"sample_build", "sample_raised"}
     /\ pc = "sample_raised" => error = "AssertionError"

\* C4 (amended): for a library that passes the two-qubit verification,
\* whenever some requested depth d and some library circuit have
\* 2*d+1 > layers the call fails with an AssertionError, and no batch has
\* been submitted before the failure.  (A library that fails the
\* verification ends with ValueError instead, also before any submission.)
C4_AssertBeforeSampling ==
  (SampleCalled /\ SomeTooShort) =>
     /\ NoBatchSubmitted
     /\ pc \in {"sample_build", "sample_raised"}
     /\ pc = "sample_raised" =>
           error = (IF verify_and_get_two_qubits_from_circuits(circuits) = <<>>
                      THEN "ValueError" ELSE "AssertionError")

\* Reached: the assertion failed on a later task, after earlier tasks were
\* built.
C4_Witness ==
  /\ pc = "sample_raised"
  /\ error = "AssertionError"
  /\ Len(tasks) >= 1
  /\ SomeTooShort
  /\ NoBatchSubmitted

\* C5 as stated: every library in which some circuit's set of qubits is not
\* one and the same two-element set makes the call raise ValueError.
AllOnSameTwoQubits ==
  \E pair \in SUBSET (0..1) :
     /\ Cardinality(pair) = 2
     /\ \A i \in 1..Len(circuits) : all_qubits(circuits[i]) = pair

C5_EveryCircuitOnSameTwo ==
  (SampleCalled /\ ~AllOnSameTwoQubits) =>
     (pc = "sample_raised" /\ error = "ValueError")

----------------------------------------------------------------------------
(* Properties of simulate_2q_xeb_circuits *)

SimulateCalled == sim_caller # "none"
SomeTooDeep ==
  \E i \in 1..Len(circuits), k \in 1..Len(cycle_depths) :
     cycle_depths[k] * 2 > Len(circuits[i]) - 1

\* C6: whenever some requested cycle depth exceeds floor((layers - 1) / 2)
\* of some circuit of the library, simulate_2q_xeb_circuits returns no table
\* and ends with ValueError (with or without a pool); until then it can
\* always take a step.
C6_SimulateRejectsTooDeep ==
  (SimulateCalled /\ SomeTooDeep) =>
     /\ simulated_df = <<>>
     /\ pc \in {"simulate", "simulate_raised"}
     /\ pc = "simulate_raised" => error = "ValueError"
     /\ pc = "simulate" => ENABLED Next

\* Reached: a pool ran a long enough circuit to the end and the error of the
\* too short one still ended the call.
C6_Witness ==
  /\ pc = "simulate_raised"
  /\ error = "ValueError"
  /\ pool
  /\ \E i, j \in 1..Len(sim_state) :
        /\ sim_state[i] = "returned" /\ sim_records[i] # <<>>
        /\ sim_state[j] = "raised"

\* C7 as stated: without a pool, when a circuit of a multi-circuit library
\* is too short for a requested depth, the simulator has executed no layer
\* of any circuit of the library by the time the error is raised.
C7_ValidationBeforeAnyLayer ==
  (SimulateCalled /\ ~pool /\ Len(circuits) >= 2 /\ SomeTooDeep) =>
     \A i \in 1..Len(sim_moment) : sim_moment[i] = 0

\* C8: when simulate_2q_xeb_circuits returns, its table holds for each
\* circuit and each requested cycle depth d exactly one record keyed
\* (circuit_i, d), taken from the simulator step of index moment_i = 2*d
\* (after 2*d+1 layers); at no time does a task hold a record from an odd
\* step or for a depth that was not requested.
C8_OneRecordPerFeasibleDepth ==
  /\ \A i \in 1..Len(sim_records) : \A k \in 1..Len(sim_records[i]) :
        LET r == sim_records[i][k]
        IN  /\ r.moment_i % 2 = 0
            /\ r.moment_i = 2 * r.cycle_depth
            /\ r.cycle_depth \in RequestedDepths
            /\ r.circuit_i = i - 1
            /\ r.moment_i < sim_moment[i]
            /\ r.pure_probs.num = StateProbs(circuits[i], 2 * r.cycle_depth)
  /\ simulated_df # <<>> =>
        /\ \A i \in CircuitIndices, d \in RequestedDepths :
              /\ d <= (Len(circuits[i + 1]) - 1) \div 2
              /\ Cardinality(RowsWithKey(simulated_df, i, d)) = 1
        /\ \A k \in 1..Len(simulated_df) :
              /\ simulated_df[k].circuit_i \in CircuitIndices
              /\ simulated_df[k].cycle_depth \in RequestedDepths
              /\ simulated_df[k].moment_i = 2 * simulated_df[k].cycle_depth

\* Reached: a three-layer circuit simulated for depth 1 only: the step of
\* depth 0 and the odd step were both passed over.
C8_Witness ==
  /\ pc = "simulate_returned"
  /\ cycle_depths = <<1>>
  /\ Len(circuits) = 2
  /\ Len(simulated_df) = 2
  /\ \A i \in 1..2 : sim_moment[i] = 3

----------------------------------------------------------------------------
(* Properties of benchmark_2q_xeb_fidelities *)

BothTables == pc \in {"bench_join", "bench_stats", "bench_raised", "bench_returned"}
Joined == pc \in {"bench_stats", "bench_raised", "bench_returned"}
Occurrences(d) == Cardinality({k \in 1..Len(cycle_depths) : cycle_depths[k] = d})

\* C9 as stated: for any list of feasible depths, repeated depths included,
\* the simulated table has every key with the same multiplicity as the
\* sampled table.
C9_SameMultiplicity ==
  BothTables =>
     \A i \in CircuitIndices, d \in RequestedDepths :
        Cardinality(RowsWithKey(simulated_df, i, d)) =
        Cardinality(RowsWithKey(sampled_df, i, d))

\* C9 (amended): for the same library and depth list the two tables have the
\* same set of keys; each key occurs once in the simulated table and as many
\* times in the sampled table as its depth occurs in the list (the
\* multiplicities agree exactly when the depths are distinct); the join
\* pairs every sampled row with exactly one simulated row, of its own key,
\* and leaves no row of either table unmatched.
C9_SameKeysAndJoin ==
  /\ BothTables =>
        /\ {Key(sampled_df[k]) : k \in 1..Len(sampled_df)} =
           {Key(simulated_df[k]) : k \in 1..Len(simulated_df)}
        /\ \A i \in CircuitIndices, d \in RequestedDepths :
              /\ Cardinality(RowsWithKey(simulated_df, i, d)) = 1
              /\ Cardinality(RowsWithKey(sampled_df, i, d)) = Occurrences(d)
  /\ Joined =>
        /\ Len(joined_df) = Len(sampled_df)
        /\ \A k \in 1..Len(joined_df) :
              /\ Key(joined_df[k]) = Key(sampled_df[k])
              /\ joined_df[k].sampled_probs = sampled_df[k].sampled_probs
              /\ \E m \in 1..Len(simulated_df) :
                    /\ Key(simulated_df[m]) = Key(joined_df[k])
                    /\ simulated_df[m].pure_probs = joined_df[k].pure_probs
        /\ \A m \in 1..Len(simulated_df) :
              \E k \in 1..Len(joined_df) : Key(joined_df[k]) = Key(simulated_df[m])

\* Reached: a repeated depth: the sampled table has twice the rows of the
\* simulated one and the join has a row for each sampled row.
C9_Witness ==
  /\ Joined
  /\ ~DistinctDepths
  /\ Len(circuits) = 2
  /\ Len(sampled_df) = 2 * Len(simulated_df)
  /\ Len(joined_df) = Len(sampled_df)

SameProbs(s, p) ==
  /\ Len(s.num) = HilbertDim
  /\ Len(p.num) = HilbertDim
  /\ \A k \in 1..HilbertDim : s.num[k] * p.den = p.num[k] * s.den
SampledEqualsPure ==
  \A k \in 1..Len(joined_df) : SameProbs(joined_df[k].sampled_probs, joined_df[k].pure_probs)
IsUniform(p) == \A k \in 1..Len(p.num) : p.num[k] * Len(p.num) = p.den
FidelityIsOne(f) == f.den # 0 /\ f.num = f.den
RowsAtDepth(d) == {k \in 1..Len(joined_df) : joined_df[k].cycle_depth = d}

\* C10 as stated: when sampled_probs equals pure_probs in every row, the
\* fidelity is 1 at every cycle depth, for every set of probability vectors.
C10_FidelityOneEverywhere ==
  (pc = "bench_returned" /\ SampledEqualsPure) =>
     \A g \in 1..Len(fidelity_df) : FidelityIsOne(fidelity_df[g].fidelity)

\* C10 (amended): when sampled_probs equals pure_probs in every row, the
\* fidelity is exactly 1 at every cycle depth at which the pure_probs of at
\* least one row is not the uniform distribution; at a depth where every
\* row is uniform the quotient is 0/0 (NaN).
C10_FidelityOneUnlessUniform ==
  (pc = "bench_returned" /\ SampledEqualsPure) =>
     /\ {fidelity_df[g].cycle_depth : g \in 1..Len(fidelity_df)} = RequestedDepths
     /\ \A g \in 1..Len(fidelity_df) :
           IF \E k \in RowsAtDepth(fidelity_df[g].cycle_depth) :
                 ~IsUniform(joined_df[k].pure_probs)
             THEN FidelityIsOne(fidelity_df[g].fidelity)
             ELSE fidelity_df[g].fidelity = NaN

\* Reached: two circuits at depths 0 and 1 with exact samples: NaN at depth
\* 0, where every row is uniform, and fidelity 1 at depth 1.
C10_Witness ==
  /\ pc = "bench_returned"
  /\ SampledEqualsPure
  /\ Len(circuits) = 2
  /\ Len(fidelity_df) = 2
  /\ fidelity_df[1].fidelity = NaN
  /\ FidelityIsOne(fidelity_df[2].fidelity)

----------------------------------------------------------------------------
(* Faults, batching, completion and progress of sample_2q_xeb_circuits *)

FailedBatches == {b \in 1..Len(futures) : futures[b] = "failed"}

SamplingPositions ==
  {"sample_collect", "sample_update", "sample_shutdown", "sample_raised"}

\* C15: a fault raised by run_batch for any batch ends the call with a
\* sampler fault - the one of the failed batch that as_completed handed
\* over, not another error - and with no table; and no batch, failed or
\* not, is given to the sampler more than once.
C15_FaultPropagatesNoRetry ==
  /\ \A b \in 1..Len(run_batch_calls) : run_batch_calls[b] <= 1
  /\ FailedBatches # {} =>
       /\ pc \in SamplingPositions
       /\ sampled_df = <<>>
       /\ error \in {"none", "SamplerFault"}
       /\ pc = "sample_raised" =>
            /\ error = "SamplerFault"
            /\ Cardinality(FailedBatches \cap yielded) = 1
  /\ error = "SamplerFault" => FailedBatches \cap yielded # {}

\* The call has ended with the fault of one batch while another batch had
\* failed too and a third had succeeded.
C15_Witness ==
  /\ pc = "sample_raised"
  /\ error = "SamplerFault"
  /\ Cardinality(FailedBatches) = 2
  /\ \E b \in 1..Len(futures) : futures[b] = "finished"
  /\ \A b \in 1..Len(run_batch_calls) : run_batch_calls[b] = 1

\* The verification passed, every task was built and the batches were cut.
BatchesBuilt ==
  /\ qubits01 # <<>>
  /\ Len(tasks) = NTasksWanted
  /\ pc \notin {"idle", "sample_build"}

\* C16: for every task list and batch_size >= 1 the batches are contiguous
\* slices that partition the task list: put one after another in order they
\* give back the task list (so every task is in exactly one batch), every
\* batch but the last holds batch_size tasks, the last holds 1 to batch_size
\* tasks; and the task list runs through the requested depths in order and,
\* within a depth, through the circuit indices.
C16_BatchesPartitionTasks ==
  BatchesBuilt =>
    /\ batch_size >= 1
    /\ Flatten(batched_tasks) = tasks
    /\ \A b \in 1..(Len(batched_tasks) - 1) : Len(batched_tasks[b]) = batch_size
    /\ batched_tasks # <<>> =>
         Len(batched_tasks[Len(batched_tasks)]) \in 1..batch_size
    /\ (batched_tasks = <<>>) = (tasks = <<>>)
    /\ \A t \in 1..Len(tasks) :
         /\ tasks[t].cycle_depth = cycle_depths[((t - 1) \div Len(circuits)) + 1]
         /\ tasks[t].circuit_i = (t - 1) % Len(circuits)

\* Four tasks cut with batch_size 3: a full batch and a last batch of one.
C16_Witness ==
  /\ BatchesBuilt
  /\ Len(tasks) = 4
  /\ batch_size = 3
  /\ Len(batched_tasks) = 2
  /\ Len(batched_tasks[2]) = 1

AllBatchesReported ==
  /\ BatchesBuilt
  /\ yielded = 1..Len(futures)
  /\ FailedBatches = {}
  /\ pc # "sample_update"

\* C18: the amount reported to the progress reporter so far never exceeds
\* the total it was opened with, the number of tasks, and equals that total
\* once every batch has completed and been reported.
C18_ProgressWithinTotal ==
  BatchesBuilt =>
    /\ progress_total = Len(tasks)
    /\ progress_n <= progress_total
    /\ AllBatchesReported => progress_n = progress_total

\* sample_2q_xeb_circuits on its own.
SampleNext ==
  \/ \E bs \in 1..MaxBatch : SampleCall(bs)
  \/ BuildTask
  \/ SubmitBatches
  \/ WorkerTake
  \/ \E b \in 1..MaxTasks, ok \in BOOLEAN : WorkerFinish(b, ok)
  \/ \E b \in 1..MaxTasks : Collect(b)
  \/ ProgressUpdate
  \/ SampleReturn
  \/ SampleShutdown

\* The steps of the calling thread, lines 507-534: one at a time, in the
\* order of the code.
MainThread ==
  \/ BuildTask
  \/ SubmitBatches
  \/ \E b \in 1..MaxTasks : Collect(b)
  \/ ProgressUpdate
  \/ SampleReturn
  \/ SampleShutdown

\* A run_batch call comes back, with its result or with a fault.
SamplerReturns == \E b \in 1..MaxTasks, ok \in BOOLEAN : WorkerFinish(b, ok)

\* The calling thread keeps running, each of the pool's two workers takes a
\* queued batch when it is free (line 525), and - the hypothesis of C17 -
\* while run_batch calls are out, one of them comes back (with finitely
\* many batches this is no more than every call coming back).
SampleFairness ==
  /\ WF_vars(MainThread)
  /\ WF_vars(WorkerTake)
  /\ WF_vars(SamplerReturns)

\* Scheduling does not look into the circuits: the libraries here hold
\* circuits of MaxLen layers on both qubits, in every number, with every
\* depth list.
FullCircuit == [i \in 1..MaxLen |-> {0, 1}]

SampleFairInit ==
  /\ circuits \in UNION {[1..n -> {FullCircuit}] : n \in 0..MaxCircuits}
  /\ cycle_depths \in DepthLists
  /\ Len(circuits) * Len(cycle_depths) <= MaxTasks
  /\ PipelineIdle
  /\ FnIdle

SampleFairSpec == SampleFairInit /\ [][SampleNext]_vars /\ SampleFairness

SampleEnded == pc \in {"sample_returned", "sample_raised"}

\* A table is returned only when every batch has completed and has been
\* merged, and the call neither returns nor raises while a run_batch call
\* is queued or has not come back: a call that never comes back keeps the
\* operation from ever ending.
ReturnsOnlyAfterAllBatches ==
  /\ pc = "sample_returned" =>
       /\ \A b \in 1..Len(futures) : futures[b] = "finished" /\ b \in yielded
       /\ Len(progress_log) = Len(futures)
       /\ sampled_df =
            Flatten([k \in 1..Len(progress_log) |-> results[progress_log[k]]])
       /\ Len(sampled_df) = Len(tasks)
  /\ (BatchesBuilt /\ SampleEnded) =>
       \A b \in 1..Len(futures) : futures[b] \in {"finished", "failed"}

----------------------------------------------------------------------------
(* least_squares_xeb_fidelity_from_expectations, lines 260-336.           *)
(* An expectation is an integer (a float counted in some fixed unit); the *)
(* fidelity and the residuals are rationals [num, den], not reduced.       *)

ExpectationLists ==
  UNION {[1..n -> 0..MaxExpectation] : n \in 0..MaxExpectations}

\* Line 317: len(measured) == len(exact) == len(uniform), a chained
\* comparison.
SameLengths_FirstTwo(m, e, u) == Len(m) = Len(e)

SameLengths(m, e, u) == Len(m) = Len(e) /\ Len(e) = Len(u)

\* Lines 326-330 (zip over equally long sequences).
numerator(m, e, u) ==
  SumSeq([i \in 1..Len(m) |-> (m[i] - u[i]) * (e[i] - u[i])])

denominator_NoSquare(e, u) == SumSeq([i \in 1..Len(e) |-> e[i] - u[i]])

denominator(e, u) == SumSeq([i \in 1..Len(e) |-> (e[i] - u[i]) ^ 2])

\* Line 331: float / float raises ZeroDivisionError on a zero divisor;
\* numpy.float64 / numpy.float64 gives nan or inf instead (den = 0).  The
\* sums start as the floats of lines 326-327 and become numpy.float64 only
\* by adding one: over no circuit at all they are floats.
DivisionRaises(d, np, n) == d = 0 /\ (~np \/ n = 0)

\* Lines 332-335: fidelity * (e - u) - (m - u), over the common divisor.
Residuals(f, m, e, u) ==
  [i \in 1..Len(m) |->
     [num |-> f.num * (e[i] - u[i]) - f.den * (m[i] - u[i]), den |-> f.den]]

LeastSquaresCall ==
  /\ lsq_pc = "idle"
  /\ LET m == measured_expectations
         e == exact_expectations
         u == uniform_expectations
     IN IF ~SameLengths(m, e, u)
        THEN /\ lsq_pc' = "raised"
             /\ lsq_error' = "ValueError"
             /\ UNCHANGED <<fidelity, residuals>>
        ELSE IF DivisionRaises(denominator(e, u), numpy_floats, Len(m))
        THEN /\ lsq_pc' = "raised"
             /\ lsq_error' = "ZeroDivisionError"
             /\ UNCHANGED <<fidelity, residuals>>
        ELSE LET f == [num |-> numerator(m, e, u), den |-> denominator(e, u)]
             IN /\ lsq_pc' = "returned"
                /\ fidelity' = f
                /\ residuals' = Residuals(f, m, e, u)
                /\ UNCHANGED lsq_error
  /\ UNCHANGED <<pipelineVars, xebVars, simplexVars, measured_expectations,
                 exact_expectations, uniform_expectations, numpy_floats>>

NoPipelineInput == circuits = <<>> /\ cycle_depths = <<>>

LsqInit ==
  /\ NoPipelineInput
  /\ PipelineIdle
  /\ measured_expectations \in ExpectationLists
  /\ exact_expectations \in ExpectationLists
  /\ uniform_expectations \in ExpectationLists
  /\ numpy_floats \in BOOLEAN
  /\ lsq_pc = "idle"
  /\ lsq_error = "none"
  /\ fidelity = <<>>
  /\ residuals = <<>>
  /\ XebIdle
  /\ SimplexIdle

LsqNext == LeastSquaresCall

LsqSpec == LsqInit /\ [][LsqNext]_vars

LsqCalled == lsq_pc # "idle"

LengthsDiffer ==
  \/ Len(measured_expectations) # Len(exact_expectations)
  \/ Len(measured_expectations) # Len(uniform_expectations)
  \/ Len(exact_expectations) # Len(uniform_expectations)

\* C11: whenever the three sequences are not all equally long - whichever
\* of them differs - the call raises ValueError and hands back neither a
\* fidelity nor residuals.
C11_UnequalLengthsRejected ==
  (LsqCalled /\ LengthsDiffer) =>
    /\ lsq_pc = "raised"
    /\ lsq_error = "ValueError"
    /\ fidelity = <<>>
    /\ residuals = <<>>

\* Only the uniform sequence differs in length; the call has been made.
C11_Witness ==
  /\ LsqCalled
  /\ Len(measured_expectations) = Len(exact_expectations)
  /\ Len(uniform_expectations) # Len(exact_expectations)
  /\ Len(uniform_expectations) > 0
  /\ lsq_error = "ValueError"

IsOne(f) == f.den # 0 /\ f.num = f.den
IsZero(f) == f.den # 0 /\ f.num = 0

ZeroResiduals == \A i \in 1..Len(residuals) : IsZero(residuals[i])

OneResidualPerCircuit == Len(residuals) = Len(measured_expectations)

\* exact = uniform in every circuit: the fit has nothing to fit to.
NothingToFit ==
  \A i \in 1..Len(exact_expectations) :
    exact_expectations[i] = uniform_expectations[i]

\* C12 as stated, for all equally long sequences (read as what holds when
\* the call returns): measured = exact gives fidelity 1 and a zero residual
\* for every circuit, measured = uniform gives fidelity 0.
C12_Original ==
  (lsq_pc = "returned" /\ ~LengthsDiffer) =>
    /\ measured_expectations = exact_expectations =>
         IsOne(fidelity) /\ OneResidualPerCircuit /\ ZeroResiduals
    /\ measured_expectations = uniform_expectations => IsZero(fidelity)

\* C12: for equally long sequences in which exact differs from uniform in
\* at least one circuit, the call returns, with fidelity 1 and all residuals
\* zero if measured = exact and with fidelity 0 if measured = uniform; when
\* exact = uniform in every circuit (or there is no circuit) the call raises
\* ZeroDivisionError or returns a fidelity that is not a number.
C12_ExactOrUniformUnlessNothingToFit ==
  (LsqCalled /\ ~LengthsDiffer) =>
    IF NothingToFit
    THEN \/ lsq_pc = "raised" /\ lsq_error = "ZeroDivisionError"
         \/ lsq_pc = "returned" /\ fidelity.den = 0
    ELSE /\ lsq_pc = "returned"
         /\ measured_expectations = exact_expectations =>
              IsOne(fidelity) /\ OneResidualPerCircuit /\ ZeroResiduals
         /\ measured_expectations = uniform_expectations => IsZero(fidelity)

\* Two circuits, measured = exact, exact above uniform in one and below it
\* in the other; the call has returned.
C12_Witness ==
  /\ lsq_pc = "returned"
  /\ Len(measured_expectations) = 2
  /\ measured_expectations = exact_expectations
  /\ exact_expectations[1] > uniform_expectations[1]
  /\ exact_expectations[2] < uniform_expectations[2]
  /\ IsOne(fidelity)

----------------------------------------------------------------------------
(* xeb_fidelity, lines 167-229, with the default (linear) estimator.       *)
(* A bitstring is an integer; an amplitude mapping is a function from      *)
(* bitstrings to squared magnitudes in units of 1 / PDen.                  *)

BitstringLists ==
  UNION {[1..n -> (-1)..HilbertDim] : n \in 0..MaxBitstrings}

\* The mappings tried: none, one that knows every two-qubit bitstring, one
\* that knows bitstring 0 only.
AmplitudeMappings ==
  { [given |-> FALSE, map |-> <<>>],
    [given |-> TRUE, map |-> [b \in 0..(HilbertDim - 1) |-> 1]],
    [given |-> TRUE, map |-> [b \in {0} |-> PDen]] }

\* Line 211: the product of the per-site dimensions, 2 for each qubit.
qid_shape_product(circuit) == 2 ^ Cardinality(all_qubits(circuit))

\* Line 217: 0 <= bitstring < dim.
InRange_Inclusive(bitstring, d) == 0 <= bitstring /\ bitstring <= d

InRange(bitstring, d) == 0 <= bitstring /\ bitstring < d

\* Lines 224-225.
output_probabilities(circuit) == StateProbs(circuit, Len(circuit) - 1)

\* linear_xeb_fidelity_from_probabilities, line 94: dim * mean(probabilities) - 1,
\* the mean of nothing being not a number (den = 0).
linear_estimator(d, probabilities) ==
  [num |-> d * SumSeq(probabilities) - Len(probabilities) * PDen,
   den |-> Len(probabilities) * PDen]

\* Lines 211-214.
XebCall ==
  /\ xeb_pc = "idle"
  /\ dim' = qid_shape_product(xeb_circuit)
  /\ bit_i' = 1
  /\ xeb_pc' = "check"
  /\ UNCHANGED <<pipelineVars, lsqVars, simplexVars, xeb_circuit, bitstrings, amplitudes,
                 xeb_error, simulator_calls, amplitude_lookups,
                 estimator_calls, bitstring_probabilities, xeb_result>>

\* Lines 216-221: one turn of the loop.
XebCheckBitstring ==
  /\ xeb_pc = "check"
  /\ bit_i <= Len(bitstrings)
  /\ IF InRange(bitstrings[bit_i], dim)
     THEN bit_i' = bit_i + 1 /\ UNCHANGED <<xeb_pc, xeb_error>>
     ELSE xeb_pc' = "raised" /\ xeb_error' = "ValueError" /\ UNCHANGED bit_i
  /\ UNCHANGED <<pipelineVars, lsqVars, simplexVars, xeb_circuit, bitstrings, amplitudes,
                 dim, simulator_calls, amplitude_lookups, estimator_calls,
                 bitstring_probabilities, xeb_result>>

\* Lines 223-228: simulate, or look every bitstring up in the mapping (a
\* missing key raises KeyError at that lookup).
XebProbabilities ==
  /\ xeb_pc = "check"
  /\ bit_i > Len(bitstrings)
  /\ IF ~amplitudes.given
     THEN /\ simulator_calls' = simulator_calls + 1
          /\ bitstring_probabilities' =
               [k \in 1..Len(bitstrings) |->
                  output_probabilities(xeb_circuit)[bitstrings[k] + 1]]
          /\ xeb_pc' = "estimate"
          /\ UNCHANGED <<amplitude_lookups, xeb_error>>
     ELSE LET missing == {k \in 1..Len(bitstrings) :
                            bitstrings[k] \notin DOMAIN amplitudes.map}
          IN /\ UNCHANGED simulator_calls
             /\ IF missing = {}
                THEN /\ amplitude_lookups' = Len(bitstrings)
                     /\ bitstring_probabilities' =
                          [k \in 1..Len(bitstrings) |->
                             amplitudes.map[bitstrings[k]]]
                     /\ xeb_pc' = "estimate"
                     /\ UNCHANGED xeb_error
                ELSE /\ amplitude_lookups' = Min(missing)
                     /\ xeb_pc' = "raised"
                     /\ xeb_error' = "KeyError"
                     /\ UNCHANGED bitstring_probabilities
  /\ UNCHANGED <<pipelineVars, lsqVars, simplexVars, xeb_circuit, bitstrings, amplitudes,
                 dim, bit_i, estimator_calls, xeb_result>>

\* Line 229.
XebEstimate ==
  /\ xeb_pc = "estimate"
  /\ estimator_calls' = estimator_calls + 1
  /\ xeb_result' = linear_estimator(dim, bitstring_probabilities)
  /\ xeb_pc' = "returned"
  /\ UNCHANGED <<pipelineVars, lsqVars, simplexVars, xeb_circuit, bitstrings, amplitudes,
                 xeb_error, dim, bit_i, simulator_calls, amplitude_lookups,
                 bitstring_probabilities>>

XebInit ==
  /\ NoPipelineInput
  /\ PipelineIdle
  /\ LsqIdle
  /\ xeb_circuit \in Circuits
  /\ bitstrings \in BitstringLists
  /\ amplitudes \in AmplitudeMappings
  /\ xeb_pc = "idle"
  /\ xeb_error = "none"
  /\ dim = 0
  /\ bit_i = 0
  /\ simulator_calls = 0
  /\ amplitude_lookups = 0
  /\ estimator_calls = 0
  /\ bitstring_probabilities = <<>>
  /\ xeb_result = <<>>
  /\ SimplexIdle

XebNext ==
  \/ XebCall
  \/ XebCheckBitstring
  \/ XebProbabilities
  \/ XebEstimate

XebSpec == XebInit /\ [][XebNext]_vars

\* D of the claim, from the circuit itself.
CircuitDim == qid_shape_product(xeb_circuit)

OutOfRange ==
  {k \in 1..Len(bitstrings) : ~(0 <= bitstrings[k] /\ bitstrings[k] < CircuitDim)}

XebEnded == xeb_pc \in {"returned", "raised"}

\* C13: if some observed bitstring lies outside [0, D), the call ends with
\* ValueError and nothing else, the loop never gets past the first such
\* bitstring, and the simulator, the amplitude mapping and the estimator
\* are never used - with or without an amplitude mapping.
C13_OutOfRangeRejectedFirst ==
  (xeb_pc # "idle" /\ OutOfRange # {}) =>
    /\ simulator_calls = 0
    /\ amplitude_lookups = 0
    /\ estimator_calls = 0
    /\ xeb_pc \in {"check", "raised"}
    /\ bit_i <= Min(OutOfRange)
    /\ xeb_pc = "raised" => xeb_error = "ValueError"

\* An amplitude mapping is supplied, the first bitstring is in range and
\* the second equals D; the call has raised ValueError.
C13_Witness ==
  /\ amplitudes.given
  /\ Len(bitstrings) = 2
  /\ bitstrings[1] = 0
  /\ bitstrings[2] = CircuitDim
  /\ xeb_pc = "raised"
  /\ xeb_error = "ValueError"

----------------------------------------------------------------------------
(* XEBPhasedFSimCharacterizationOptions.get_initial_simplex_and_names,     *)
(* lines 732-772.  Angles and the step are integers (floats counted in     *)
(* some fixed unit); a vertex is the sequence of its coordinates.          *)

OptionSets ==
  [characterize_theta : BOOLEAN, characterize_zeta : BOOLEAN,
   characterize_chi : BOOLEAN, characterize_gamma : BOOLEAN,
   characterize_phi : BOOLEAN,
   theta_default : 0..MaxDefault, zeta_default : 0..MaxDefault,
   chi_default : 0..MaxDefault, gamma_default : 0..MaxDefault,
   phi_default : 0..MaxDefault]

\* Lines 746-762: x0 and names grow together, one "if" per angle.
x0_of(o) ==
  (IF o.characterize_theta THEN <<o.theta_default>> ELSE <<>>)
  \o (IF o.characterize_zeta THEN <<o.zeta_default>> ELSE <<>>)
  \o (IF o.characterize_chi THEN <<o.chi_default>> ELSE <<>>)
  \o (IF o.characterize_gamma THEN <<o.gamma_default>> ELSE <<>>)
  \o (IF o.characterize_phi THEN <<o.phi_default>> ELSE <<>>)

names_of(o) ==
  (IF o.characterize_theta THEN <<"theta">> ELSE <<>>)
  \o (IF o.characterize_zeta THEN <<"zeta">> ELSE <<>>)
  \o (IF o.characterize_chi THEN <<"chi">> ELSE <<>>)
  \o (IF o.characterize_gamma THEN <<"gamma">> ELSE <<>>)
  \o (IF o.characterize_phi THEN <<"phi">> ELSE <<>>)

\* Line 768: np.eye(1, n_param, i)[0], the row with its one at column i
\* (counted from 0).
basis_vec_AllOnes(n_param, i) == [k \in 1..n_param |-> 1]

basis_vec(n_param, i) == [k \in 1..n_param |-> IF k = i + 1 THEN 1 ELSE 0]

\* Lines 764-770.
simplex_of(x0, step) ==
  LET n_param == Len(x0)
  IN  <<x0>> \o
      [i \in 1..n_param |->
         [k \in 1..n_param |-> x0[k] + step * basis_vec(n_param, i - 1)[k]]]

GetInitialSimplexAndNames ==
  /\ simplex_pc = "idle"
  /\ initial_simplex' = simplex_of(x0_of(options), initial_simplex_step_size)
  /\ names' = names_of(options)
  /\ simplex_pc' = "returned"
  /\ UNCHANGED <<pipelineVars, lsqVars, xebVars, options,
                 initial_simplex_step_size>>

SimplexInit ==
  /\ NoPipelineInput
  /\ PipelineIdle
  /\ LsqIdle
  /\ XebIdle
  /\ options \in OptionSets
  /\ initial_simplex_step_size \in 0..MaxStep
  /\ simplex_pc = "idle"
  /\ initial_simplex = <<>>
  /\ names = <<>>

SimplexNext == GetInitialSimplexAndNames

SimplexSpec == SimplexInit /\ [][SimplexNext]_vars

\* The five angles in canonical order, each with its flag and its default.
CanonicalAngles ==
  << [name |-> "theta", on |-> options.characterize_theta,
      default |-> options.theta_default],
     [name |-> "zeta", on |-> options.characterize_zeta,
      default |-> options.zeta_default],
     [name |-> "chi", on |-> options.characterize_chi,
      default |-> options.chi_default],
     [name |-> "gamma", on |-> options.characterize_gamma,
      default |-> options.gamma_default],
     [name |-> "phi", on |-> options.characterize_phi,
      default |-> options.phi_default] >>

IsOn(a) == a.on

EnabledAngles == SelectSeq(CanonicalAngles, IsOn)

NFlags == Cardinality({k \in 1..5 : CanonicalAngles[k].on})

\* C14: for every combination of the five flags, n of them set, the call
\* returns n + 1 vertices of n coordinates and n names; the names are the
\* enabled angles in the order theta, zeta, chi, gamma, phi; vertex 0 holds
\* their defaults in that order; vertex i (1 <= i <= n) is vertex 0 with the
\* step added to coordinate i and to no other.
C14_SimplexShape ==
  simplex_pc = "returned" =>
    /\ Len(initial_simplex) = NFlags + 1
    /\ \A v \in 1..Len(initial_simplex) : Len(initial_simplex[v]) = NFlags
    /\ Len(names) = NFlags
    /\ names = [j \in 1..NFlags |-> EnabledAngles[j].name]
    /\ initial_simplex[1] = [j \in 1..NFlags |-> EnabledAngles[j].default]
    /\ \A i \in 1..NFlags : \A k \in 1..NFlags :
         initial_simplex[i + 1][k] - initial_simplex[1][k] =
           IF k = i THEN initial_simplex_step_size ELSE 0

\* zeta, gamma and phi are characterized (n = 3), with defaults that tell
\* them apart and a step that is not zero; the call has returned.
C14_Witness ==
  /\ simplex_pc = "returned"
  /\ ~options.characterize_theta /\ ~options.characterize_chi
  /\ options.characterize_zeta /\ options.characterize_gamma
  /\ options.characterize_phi
  /\ options.zeta_default # options.gamma_default
  /\ options.theta_default # options.zeta_default
  /\ initial_simplex_step_size > 0
  /\ Len(initial_simplex) = 4

====
